---- MODULE Spec2Model ----
(***************************************************************************)
(* Model of the cross detector of the MLX90641 example sketch (cross.cpp): *)
(* is_cross decides whether one cell is the centre of a plus shape, and    *)
(* find_crosses scans the whole 12 x 16 grid with it.                      *)
(***************************************************************************)
EXTENDS Integers, Sequences, FiniteSets, TLC

\* Grid geometry, the #define lines of cross.cpp.
ROWS == 12
COLS == 16
ARM == 1

\* Cell values range over 0..MaxVal (the code does not restrict them to 0/1).
MaxVal == 2
\* At most MaxStamps plus shapes are drawn into an input grid.
MaxStamps == 2
\* At most MaxCalls calls of find_crosses are made on one grid.
MaxCalls == 2
\* An indeterminate int (an uninitialised local) reads as one of 0..MaxUninit.
MaxUninit == 1

Cells == (0 .. ROWS - 1) \X (0 .. COLS - 1)

InBounds(row, col) == row \in 0 .. ROWS - 1 /\ col \in 0 .. COLS - 1

\* A local that was declared without an initialiser and not yet assigned.
Unset == << >>

\* The values an indeterminate int can turn out to hold when it is read.
Indeterminate == 0 .. MaxUninit

-----------------------------------------------------------------------------
(* Input grids: the caller fills the grid before calling.                  *)

\* Centres at which the caller may draw a plus shape (clipped at the border).
Centres == { <<0, 0>>, <<5, 8>>, <<5, 9>>, <<8, 3>>, <<ROWS - 1, COLS - 1>> }

\* Single cells whose value the caller may then overwrite: a corner, and an
\* interior centre with its four neighbours.
PokeCells == { <<0, 0>>, <<5, 8>>, <<4, 8>>, <<6, 8>>, <<5, 7>>, <<5, 9>> }

StampCells(p) ==
    { q \in Cells : \/ q = p
                    \/ \E i \in 1 .. ARM :
                          \/ q = <<p[1] - i, p[2]>>
                          \/ q = <<p[1] + i, p[2]>>
                          \/ q = <<p[1], p[2] - i>>
                          \/ q = <<p[1], p[2] + i>> }

StampGrid(S) ==
    LET on == UNION { StampCells(p) : p \in S }
    IN  [q \in Cells |-> IF q \in on THEN 1 ELSE 0]

InputGrids ==
    LET stamped == { StampGrid(S) : S \in { T \in SUBSET Centres : Cardinality(T) <= MaxStamps } }
    IN  stamped \cup { [g EXCEPT ![q] = v] : g \in stamped, q \in PokeCells, v \in 0 .. MaxVal }

-----------------------------------------------------------------------------
(* is_cross                                                                *)

\* Variant: truthiness instead of equality to 1.
IsNonzero(v) == v # 0

\* The comparison `!= 1` of lines 15 and 19-22, as "the cell counts as set".
IsOne(v) == v = 1

\* Variant: an out-of-range neighbour is skipped instead of failing the test.
NeighbourFailsLenient(g, oob, p, reads) ==
    IF oob
    THEN [fail |-> FALSE, reads |-> reads]
    ELSE [fail |-> ~IsOne(g[p]), reads |-> Append(reads, p)]

\* Variant: the cell is read before its index is tested.
NeighbourFailsUnguarded(g, oob, p, reads) ==
    [fail |-> oob \/ (p \in DOMAIN g /\ ~IsOne(g[p])), reads |-> Append(reads, p)]

\* One operand pair `index out of range || grid[..] != 1` of lines 19-22:
\* the cell is read only when the range test is false (short circuit).
NeighbourFails(g, oob, p, reads) ==
    IF oob
    THEN [fail |-> TRUE, reads |-> reads]
    ELSE [fail |-> ~IsOne(g[p]), reads |-> Append(reads, p)]

\* Variant: the test of the right-hand neighbour (line 22) is missing.
ArmStepNoRight(g, row, col, i, reads) ==
    LET t1 == NeighbourFails(g, row - i < 0, <<row - i, col>>, reads)
        t2 == NeighbourFails(g, row + i >= ROWS, <<row + i, col>>, t1.reads)
        t3 == NeighbourFails(g, col - i < 0, <<row, col - i>>, t2.reads)
    IN  IF t1.fail THEN t1
        ELSE IF t2.fail THEN t2
        ELSE t3

\* One iteration of the for loop of line 18: the four tests in source order,
\* returning at the first that fails.
ArmStep(g, row, col, i, reads) ==
    LET t1 == NeighbourFails(g, row - i < 0, <<row - i, col>>, reads)
        t2 == NeighbourFails(g, row + i >= ROWS, <<row + i, col>>, t1.reads)
        t3 == NeighbourFails(g, col - i < 0, <<row, col - i>>, t2.reads)
        t4 == NeighbourFails(g, col + i >= COLS, <<row, col + i>>, t3.reads)
    IN  IF t1.fail THEN t1
        ELSE IF t2.fail THEN t2
        ELSE IF t3.fail THEN t3
        ELSE t4

RECURSIVE ArmLoop(_, _, _, _, _)
ArmLoop(g, row, col, i, reads) ==
    IF i > ARM
    THEN [res |-> 1, reads |-> reads]
    ELSE LET t == ArmStep(g, row, col, i, reads)
         IN  IF t.fail
             THEN [res |-> 0, reads |-> t.reads]
             ELSE ArmLoop(g, row, col, i + 1, t.reads)

\* is_cross on an in-bounds centre: its result and the grid indices it reads,
\* in order.
IsCrossRun(g, row, col) ==
    IF ~IsOne(g[<<row, col>>])
    THEN [res |-> 0, reads |-> << <<row, col>> >>]
    ELSE ArmLoop(g, row, col, 1, << <<row, col>> >>)

\* Variant: the centre is validated first and an out-of-range one gives 0.
IsCrossOutcomesValidated(g, row, col) ==
    IF InBounds(row, col)
    THEN { IsCrossRun(g, row, col) }
    ELSE { [res |-> 0, reads |-> << >>] }

\* The outcomes of a call is_cross(grid, row, col).  Line 15 indexes the grid
\* with the centre before any range test, so an out-of-range centre is read
\* outside the array: the value read, and with it the result, is arbitrary.
IsCrossOutcomes(g, row, col) ==
    IF InBounds(row, col)
    THEN { IsCrossRun(g, row, col) }
    ELSE { [res |-> v, reads |-> << <<row, col>> >>] : v \in {0, 1} }

\* The value is_cross returns to the scan (the centre is in bounds there).
is_cross(g, row, col) == IsCrossRun(g, row, col).res

-----------------------------------------------------------------------------
(* find_crosses                                                            *)

\* Variant: current_c is left without an initialiser as well.
EntryLocalsNoInit == [current_r |-> Unset, current_c |-> Unset, found |-> 0]

\* Lines 30 and 32: the locals on entry.  current_r has no initialiser.
EntryLocals == [current_r |-> Unset, current_c |-> <<0>>, found |-> 0]

\* Variant: the first match is kept.
OnMatchFirstWins(cur, row, col) ==
    IF cur.found # 0
    THEN cur
    ELSE [current_r |-> <<row>>, current_c |-> <<col>>, found |-> 1]

\* Variant: matches are counted (the commented-out found++ of line 39).
OnMatchCount(cur, row, col) ==
    [current_r |-> <<row>>, current_c |-> <<col>>, found |-> cur.found + 1]

\* Variant: the assignment current_r = r is missing.
OnMatchNoRow(cur, row, col) ==
    [current_r |-> cur.current_r, current_c |-> <<col>>, found |-> 1]

\* Lines 37-40: what a match does to (current_r, current_c, found).
OnMatch(cur, row, col) ==
    [current_r |-> <<row>>, current_c |-> <<col>>, found |-> 1]

\* Lines 48-49: the value read from a local; an unassigned one is
\* indeterminate.
ReadLocal(x) == IF x = Unset THEN Indeterminate ELSE { x[1] }

\* Variant: a match leaves both loops.
NextCellBreak(row, col, hit) ==
    IF hit THEN <<ROWS, 0>>
    ELSE IF col + 1 < COLS THEN <<row, col + 1>> ELSE <<row + 1, 0>>

\* The loop headers of lines 34-35: the cell after (row, col); a match does
\* not alter the iteration.  <<ROWS, 0>> is the exit of the outer loop.
NextCell(row, col, hit) ==
    IF col + 1 < COLS THEN <<row, col + 1>> ELSE <<row + 1, 0>>

VARIABLES
    grid,        \* the caller's grid, a function on Cells
    pc,          \* "idle": no call in progress; "loop": inside find_crosses
    r, c,        \* find_crosses: loop indices
    current_r,   \* find_crosses: Unset, or <<v>> once assigned
    current_c,   \* find_crosses: <<0>> on entry, <<v>> once assigned
    found,       \* find_crosses: initialised to 0
    ret,         \* the vector last returned by find_crosses, << >> if none
    calls,       \* number of find_crosses calls started
    visited,     \* cells at which the current/last scan evaluated is_cross
    ic           \* the most recent is_cross evaluation, << >> if none

vars == <<grid, pc, r, c, current_r, current_c, found, ret, calls, visited, ic>>

locals == <<r, c, current_r, current_c, found>>

\* The coordinates a caller probes is_cross with: centres inside the grid and
\* centres one step past each of its edges.
Probes ==
    { <<0, 0>>, <<5, 8>>, <<ROWS - 1, COLS - 1>>,
      <<-1, 8>>, <<ROWS, 8>>, <<5, -1>>, <<5, COLS>> }

IcRecord(by, row, col, out) ==
    << [by |-> by, row |-> row, col |-> col, res |-> out.res, reads |-> out.reads] >>

Init ==
    /\ grid \in InputGrids
    /\ pc = "idle"
    /\ r = 0
    /\ c = 0
    /\ current_r = EntryLocals.current_r
    /\ current_c = EntryLocals.current_c
    /\ found = EntryLocals.found
    /\ ret = << >>
    /\ calls = 0
    /\ visited = << >>
    /\ ic = << >>

\* The caller invokes is_cross directly.
CallIsCross ==
    /\ pc = "idle"
    /\ \E p \in Probes :
          \E out \in IsCrossOutcomes(grid, p[1], p[2]) :
             ic' = IcRecord("caller", p[1], p[2], out)
    /\ UNCHANGED <<grid, pc, locals, ret, calls, visited>>

\* find_crosses is entered: lines 30-34 (declarations and the loop's r = 0).
CallFindCrosses ==
    /\ pc = "idle"
    /\ calls < MaxCalls
    /\ pc' = "loop"
    /\ calls' = calls + 1
    /\ r' = 0
    /\ c' = 0
    /\ found' = EntryLocals.found
    /\ current_r' = EntryLocals.current_r
    /\ current_c' = EntryLocals.current_c
    /\ visited' = << >>
    /\ ic' = << >>
    /\ UNCHANGED <<grid, ret>>

\* One iteration of the inner loop body, lines 35-42, with its is_cross call.
ScanStep ==
    /\ pc = "loop"
    /\ r < ROWS
    /\ LET out == IsCrossRun(grid, r, c)
           hit == is_cross(grid, r, c) # 0
           cur == [current_r |-> current_r, current_c |-> current_c, found |-> found]
           new == IF hit THEN OnMatch(cur, r, c) ELSE cur
           nxt == NextCell(r, c, hit)
       IN  /\ ic' = IcRecord("find_crosses", r, c, out)
           /\ visited' = Append(visited, <<r, c>>)
           /\ current_r' = new.current_r
           /\ current_c' = new.current_c
           /\ found' = new.found
           /\ r' = nxt[1]
           /\ c' = nxt[2]
    /\ UNCHANGED <<grid, pc, ret, calls>>

\* Lines 47-52: the result vector is built and returned.
Return ==
    /\ pc = "loop"
    /\ r >= ROWS
    /\ \E row \in ReadLocal(current_r), col \in ReadLocal(current_c) :
          ret' = <<row, col, found>>
    /\ pc' = "idle"
    /\ UNCHANGED <<grid, locals, calls, visited, ic>>

Next ==
    \/ CallIsCross
    \/ CallFindCrosses
    \/ ScanStep
    \/ Return

Spec == Init /\ [][Next]_vars

\* The routine is sequential code with nothing to wait for: once entered, each
\* loop iteration and the return are taken.
FairSpec == Spec /\ WF_vars(ScanStep) /\ WF_vars(Return)

TypeOK ==
    /\ grid \in [Cells -> 0 .. MaxVal]
    /\ pc \in {"idle", "loop"}
    /\ r \in 0 .. ROWS
    /\ c \in 0 .. COLS - 1
    /\ calls \in 0 .. MaxCalls

-----------------------------------------------------------------------------
(* The properties.                                                         *)

\* The definition of a cross, stated on the grid alone: the centre is 1 and
\* every cell at distance 1..ARM in the four directions exists and is 1.
Neighbours(row, col) ==
    UNION { { <<row - i, col>>, <<row + i, col>>, <<row, col - i>>, <<row, col + i>> } :
            i \in 1 .. ARM }

CrossAt(g, row, col) ==
    /\ g[<<row, col>>] = 1
    /\ \A q \in Neighbours(row, col) : q \in Cells /\ g[q] = 1

CrossCells(g) == { p \in Cells : CrossAt(g, p[1], p[2]) }

\* p is scanned no later than q.
ScannedBefore(p, q) == p[1] < q[1] \/ (p[1] = q[1] /\ p[2] <= q[2])

OnBorder(row, col) == row = 0 \/ row = ROWS - 1 \/ col = 0 \/ col = COLS - 1

RowMajor == [k \in 1 .. ROWS * COLS |-> <<(k - 1) \div COLS, (k - 1) % COLS>>]

Evaluated == ic # << >>
Returned == ret # << >>

\* C1: for an in-bounds centre is_cross returns 1 exactly when the centre is 1
\* and each of its four neighbours at every distance 1..ARM is a valid index
\* holding 1, and 0 otherwise.
C1_IsCrossIffPlus ==
    (Evaluated /\ InBounds(ic[1].row, ic[1].col))
        => ic[1].res = (IF CrossAt(grid, ic[1].row, ic[1].col) THEN 1 ELSE 0)

C1_Witness ==
    /\ Evaluated
    /\ InBounds(ic[1].row, ic[1].col)
    /\ ic[1].res = 1
    /\ CrossAt(grid, ic[1].row, ic[1].col)

\* C2: when the grid has a cross centre, find_crosses returns found = 1 and
\* the cross centre that is last in row-major order.
C2_LastCrossWins ==
    Returned =>
        LET crosses == CrossCells(grid)
        IN  crosses # {}
               => /\ ret[3] = 1
                  /\ <<ret[1], ret[2]>> \in crosses
                  /\ \A q \in crosses : ScannedBefore(q, <<ret[1], ret[2]>>)

C2_Witness ==
    /\ Returned
    /\ grid = StampGrid({ <<5, 8>>, <<8, 3>> })
    /\ ret = <<8, 3, 1>>

\* C3: found is always 0 or 1, and the returned flag is 1 exactly when some
\* cell is a cross centre; on the all-zero grid it is 0.
C3_FoundIffSomeCross ==
    /\ found \in {0, 1}
    /\ Returned => /\ ret[3] \in {0, 1}
                   /\ ret[3] = 1 <=> CrossCells(grid) # {}
    /\ (Returned /\ \A q \in Cells : grid[q] = 0) => ret[3] = 0

C3_Witness ==
    /\ Returned
    /\ \A q \in Cells : grid[q] = 0
    /\ ret[3] = 0

\* C4: is_cross returns 0 at every cell of the grid border, and the grid whose
\* only 1 is grid[0][0] gives found = 0.
CornerOnly == [q \in Cells |-> IF q = <<0, 0>> THEN 1 ELSE 0]

C4_BorderNeverCross ==
    /\ (Evaluated /\ InBounds(ic[1].row, ic[1].col) /\ OnBorder(ic[1].row, ic[1].col))
          => ic[1].res = 0
    /\ (Returned /\ grid = CornerOnly) => ret[3] = 0

C4_Witness ==
    /\ Evaluated
    /\ ic[1].row = 0 /\ ic[1].col = 0
    /\ grid[<<0, 0>>] = 1 /\ grid[<<1, 0>>] = 1 /\ grid[<<0, 1>>] = 1
    /\ ic[1].res = 0

\* C5: is_cross returns 0 when the centre is not exactly 1, and when a
\* neighbour holds any value other than 1 (2, for one), whatever the rest.
C5_StrictEqualityToOne ==
    (Evaluated /\ InBounds(ic[1].row, ic[1].col))
        => /\ grid[<<ic[1].row, ic[1].col>>] # 1 => ic[1].res = 0
           /\ (\E q \in Neighbours(ic[1].row, ic[1].col) \cap Cells : grid[q] # 1)
                 => ic[1].res = 0

C5_Witness ==
    /\ Evaluated
    /\ ic[1].row = 5 /\ ic[1].col = 8
    /\ grid[<<5, 8>>] = 2
    /\ \A q \in Neighbours(5, 8) : grid[q] = 1
    /\ ic[1].res = 0

\* C6: with no cross in the grid find_crosses returns found = 0, column 0 (its
\* initial value) and, as row, whatever the never-assigned current_r holds.
C6_NoCrossKeepsInitials ==
    (Returned /\ pc = "idle" /\ CrossCells(grid) = {})
        => /\ ret[3] = 0
           /\ ret[2] = 0
           /\ current_c = <<0>>
           /\ current_r = Unset
           /\ ret[1] \in Indeterminate

C6_Witness ==
    /\ Returned
    /\ pc = "idle"
    /\ CrossCells(grid) = {}
    /\ current_r = Unset
    /\ ret[1] # 0
    /\ ret[2] = 0
    /\ ret[3] = 0

\* C7: no step of is_cross or find_crosses changes the grid, and once
\* find_crosses has returned on a grid with a cross every later call returns
\* the same triple.
C7_GridUntouchedResultStable ==
    [][/\ grid' = grid
       /\ (Returned /\ CrossCells(grid) # {}) => ret' = ret]_vars

C7_Witness ==
    /\ calls = 2
    /\ pc = "idle"
    /\ Evaluated /\ ic[1].by = "caller"
    /\ ret[3] = 1

\* C8: every call of find_crosses returns, having evaluated is_cross once at
\* each cell in row-major order, match or no match.
C8_ScanCompletesInOrder ==
    (pc = "loop") ~> (pc = "idle" /\ visited = RowMajor)

C8_Witness ==
    /\ pc = "idle"
    /\ Returned
    /\ ret[3] = 1
    /\ visited = RowMajor

\* C9: called with a centre outside the grid, is_cross reads grid[row][col]
\* first: its first access is the out-of-bounds centre.
C9_CentreReadUnchecked ==
    (Evaluated /\ ~InBounds(ic[1].row, ic[1].col))
        => /\ Len(ic[1].reads) >= 1
           /\ ic[1].reads[1] = <<ic[1].row, ic[1].col>>
           /\ ic[1].reads[1] \notin Cells

C9_Witness ==
    /\ Evaluated
    /\ ic[1].by = "caller"
    /\ ic[1].row = ROWS
    /\ ic[1].reads = << <<ROWS, ic[1].col>> >>

\* C10: inside find_crosses is_cross is given an in-bounds centre and reads
\* only in-bounds cells; an out-of-range neighbour is not read.
C10_ScanReadsInBounds ==
    (Evaluated /\ ic[1].by = "find_crosses")
        => /\ InBounds(ic[1].row, ic[1].col)
           /\ \A k \in 1 .. Len(ic[1].reads) : ic[1].reads[k] \in Cells

C10_Witness ==
    /\ Evaluated
    /\ ic[1].by = "find_crosses"
    /\ ic[1].row = ROWS - 1 /\ ic[1].col = COLS - 1
    /\ grid[<<ROWS - 1, COLS - 1>>] = 1
    /\ ic[1].reads = << <<ROWS - 1, COLS - 1>>, <<ROWS - 2, COLS - 1>> >>

====
